---- MODULE Spec2Model ----
(***************************************************************************)
(* Model of the AuthKit script-tag client (nicknisi/kith): the PKCE proof  *)
(* store (pkce.ts), the session store (session.ts), the token exchange     *)
(* (token.ts) and the orchestrator (authkit.ts: bootstrap, handleCallback, *)
(* signIn, signOut) running in one browser tab.                            *)
(*                                                                         *)
(* One browser document is one "page load".  Storage (sessionStorage,      *)
(* localStorage) and the clock survive page loads; everything else is      *)
(* reset by Navigate.  JavaScript runs to completion, so every action is   *)
(* one synchronous block of the source: the suspension points are the      *)
(* digest in createPkceBundle, the fetch in exchangeCode, and the          *)
(* microtask that runs the .then() callback of handleCallback().           *)
(***************************************************************************)
EXTENDS Integers, Sequences, FiniteSets, TLC

VARIABLES
  config,              \* AuthKitConfig read from the script tag
  now,                 \* Date.now()
  url,                 \* window.location of the current document
  history,             \* the session-history entries this document owns
  pkceSlot,            \* sessionStorage["authkit:pkce"]
  sessionSlot,         \* localStorage["authkit:session"]
  stateSlot,           \* sessionStorage["authkit:state"]
  phase,               \* position of the current document's script
  exposed,             \* window.AuthKit is assigned
  currentUser,         \* let currentUser
  currentAccessToken,  \* let currentAccessToken
  inflight,            \* the exchange request awaiting its response
  response,            \* the response this document received to its request
  readyValue,          \* settlement of the ready promise
  signals,             \* DOM events dispatched by this document, in order
  errors,              \* console.error diagnostics of this document, in order
  navLog,              \* navigations requested by this document, in order
  rejected,            \* signIn promises rejected in the current document
  pendingSignIn,       \* the signIn calls suspended at the digest
  loads,               \* number of documents loaded so far
  nextId,              \* number of proof bundles drawn so far
  sent                 \* every exchange request ever issued, with its page load

vars == <<config, now, url, history, pkceSlot, sessionSlot, stateSlot, phase,
          exposed, currentUser, currentAccessToken, inflight, response, readyValue,
          signals, errors, navLog, rejected, pendingSignIn, loads, nextId,
          sent>>

storageVars == <<pkceSlot, sessionSlot, stateSlot>>
memoryVars  == <<currentUser, currentAccessToken>>

----------------------------------------------------------------------------
(* Bounds of the model *)

MaxLoads   == 2        \* documents loaded in the tab
MaxSignIns == 1        \* proof bundles drawn by signIn
MaxNow     == 600002   \* last clock value

----------------------------------------------------------------------------
(* JavaScript values *)

JsNull    == "<null>"
Undefined == "<undefined>"

Truthy(s) == s \notin {JsNull, Undefined, ""}

NullUser  == [kind |-> "null"]
UndefUser == [kind |-> "undefined"]

UserTruthy(u) == u.kind = "obj"

NoRequest == [kind |-> "none"]

NoResponse == [kind |-> "none"]

ReadyPending == [kind |-> "pending"]

NoSignIn == {}

----------------------------------------------------------------------------
(* Storage slots: a slot is absent, holds text that is not JSON, or holds  *)
(* the JSON text of a value.                                               *)

AbsentSlot  == [kind |-> "absent"]
GarbageSlot == [kind |-> "garbage"]

\* The storage behind a slot cannot be used: reading it throws.
UnavailableSlot == [kind |-> "unavailable"]


(* pkce.ts *)

PKCE_MAX_AGE_MS == 10 * 60 * 1000

\* The n-th bundle drawn by createPkceBundle: randomString(64), randomString(32)
\* and the S256 digest of the verifier; every draw is fresh.
CreatePkceBundle(n) ==
  [state         |-> "s" \o ToString(n),
   codeVerifier  |-> "v" \o ToString(n),
   codeChallenge |-> "S256(v" \o ToString(n) \o ")"]

\* Mutant: the challenge is persisted in place of the verifier.
StorePkce_StoresChallenge(bundle, t) ==
  [kind |-> "json", state |-> bundle.state, codeVerifier |-> bundle.codeChallenge,
   hasCreatedAt |-> TRUE, createdAt |-> t]

\* storePkce: JSON.stringify({state, codeVerifier, createdAt: Date.now()})
StorePkce(bundle, t) ==
  [kind |-> "json", state |-> bundle.state, codeVerifier |-> bundle.codeVerifier,
   hasCreatedAt |-> TRUE, createdAt |-> t]

ClearPkce == AbsentSlot


\* Mutant: the age of the stored proof is not checked.
PkceExpired_Never(data, t) == FALSE

\* Mutant: a proof aged exactly ten minutes counts as expired.
PkceExpired_AtTenMinutes(data, t) ==
  IF data.hasCreatedAt THEN t - data.createdAt >= PKCE_MAX_AGE_MS ELSE FALSE

\* Date.now() - data.createdAt > PKCE_MAX_AGE_MS; a record without createdAt
\* gives NaN, and NaN > x is false.
PkceExpired(data, t) ==
  IF data.hasCreatedAt THEN t - data.createdAt > PKCE_MAX_AGE_MS ELSE FALSE

\* !data.state || !data.codeVerifier
PkceFieldsMissing(data) == ~Truthy(data.state) \/ ~Truthy(data.codeVerifier)

NoPkce == [found |-> FALSE]

\* retrievePkce: the value returned and the slot it leaves behind.
RetrievePkce(slot, t) ==
  IF slot.kind = "absent" THEN [res |-> NoPkce, slot |-> slot]
  ELSE IF slot.kind = "garbage" THEN [res |-> NoPkce, slot |-> slot]
  ELSE IF PkceFieldsMissing(slot) THEN [res |-> NoPkce, slot |-> slot]
  ELSE IF PkceExpired(slot, t) THEN [res |-> NoPkce, slot |-> ClearPkce]
  ELSE [res  |-> [found |-> TRUE, state |-> slot.state,
                  codeVerifier |-> slot.codeVerifier],
        slot |-> slot]

----------------------------------------------------------------------------
(* session.ts *)


\* Mutant: only the token is persisted.
StoreSession_TokenOnly(accessToken, user, t) ==
  [kind |-> "json", value |-> "obj", accessToken |-> accessToken,
   user |-> UndefUser, storedAt |-> t]

\* Mutant: the session is stored without a time stamp.
StoreSession_NoTimestamp(accessToken, user, t) ==
  [kind |-> "json", value |-> "obj", accessToken |-> accessToken, user |-> user,
   storedAt |-> 0]

\* storeSession: JSON.stringify({accessToken, user, storedAt: Date.now()})
StoreSession(accessToken, user, t) ==
  [kind |-> "json", value |-> "obj", accessToken |-> accessToken, user |-> user,
   storedAt |-> t]

\* Mutant: the stored access token is lost on load.
GetSession_DropsToken(slot) ==
  IF slot.kind = "json" THEN [slot EXCEPT !.accessToken = JsNull]
  ELSE [kind |-> "json", value |-> "null"]

\* getSession: null when the slot is absent or does not parse, otherwise
\* whatever JSON.parse produced.
GetSession(slot) ==
  IF slot.kind = "json" THEN slot ELSE [kind |-> "json", value |-> "null"]

\* localStorage.getItem is called outside the try block of getSession: when
\* the storage cannot be read the exception leaves getSession.
GetSessionThrows(slot) == slot.kind = "unavailable"

SessionTruthy(session) == session.value = "obj"

ClearSession == AbsentSlot

----------------------------------------------------------------------------
(* token.ts *)


\* Mutant: null fields are passed through.
NullToUndefined_Identity(x) == x

\* x ?? undefined
NullToUndefined(x) == IF x = JsNull THEN Undefined ELSE x

\* extractUser
ExtractUser(tokenResponse) ==
  [kind              |-> "obj",
   sub               |-> tokenResponse.user.id,
   email             |-> tokenResponse.user.email,
   firstName         |-> NullToUndefined(tokenResponse.user.first_name),
   lastName          |-> NullToUndefined(tokenResponse.user.last_name),
   profilePictureUrl |-> NullToUndefined(tokenResponse.user.profile_picture_url)]

\* Mutant: the request also carries a client secret.
ExchangeCodeBody_WithSecret(cfg, params) ==
  [grant_type    |-> "authorization_code",
   client_id     |-> cfg.clientId,
   client_secret |-> "sk_1",
   code          |-> params.code,
   code_verifier |-> params.codeVerifier]

\* exchangeCode: the form fields of the POST body.
ExchangeCodeBody(cfg, params) ==
  [grant_type    |-> "authorization_code",
   client_id     |-> cfg.clientId,
   code          |-> params.code,
   code_verifier |-> params.codeVerifier]

\* exchangeCode up to `await fetch(...)`: the request in flight, with the
\* parameters it was called with and the body it posts.
ExchangeCodeStart(cfg, params) ==
  [kind |-> "req", code |-> params.code, codeVerifier |-> params.codeVerifier,
   body |-> ExchangeCodeBody(cfg, params)]

\* exchangeCode throws on a transport failure, on !response.ok and when the
\* body does not parse; extractUser throws when the body has no user object.
ExchangeThrows(resp) ==
  \/ resp.kind = "neterr"
  \/ resp.kind = "http"
  \/ resp.kind = "ok" /\ resp.body.user.kind # "obj"

(* events.ts and the ready promise *)

\* dispatchAuthKitEvent(name, detail): appended to the document's event log.
DispatchAuthKitEvent(log, name, user) == Append(log, [name |-> name, user |-> user])

\* resolveReady(value): a promise settles once, later calls change nothing.
ResolveReady(rv, user) ==
  IF rv.kind = "pending" THEN [kind |-> "resolved", user |-> user] ELSE rv

----------------------------------------------------------------------------
(* Inputs *)

Origin == "https://app.example"

\* data-client-id: not given, given empty, or given.
ClientIds    == {Undefined, "", "client_1"}
RedirectUris == {Origin \o "/callback"}

Configs == [clientId : ClientIds, redirectUri : RedirectUris, autoCallback : BOOLEAN]

\* new URL(redirectUri, window.location.origin).pathname
Pathname(uri) == IF uri = Origin \o "/callback" THEN "/callback" ELSE "/"

Paths     == {"/callback", "/callback/", "/app"}
Codes     == {JsNull, "", "c1"}
UrlStates == {JsNull} \cup {"s" \o ToString(i) : i \in 0..MaxSignIns}
Extras    == {JsNull, "1"}

\* window.location: the path, the code and state query parameters, and one
\* unrelated query parameter (tab); JsNull is "parameter not present".  The
\* unrelated parameter and the empty code are tried on the redirect path, a
\* state parameter accompanies a code, and away from the redirect path the
\* code comes with the state of the proof the tab opened with.
Urls ==
  {u \in [path : Paths, code : Codes, state : UrlStates, tab : Extras] :
     /\ u.tab # JsNull => u.path = "/callback" /\ u.code = "c1"
     /\ u.code = "" => u.path = "/callback"
     /\ u.code # "c1" => u.state = JsNull
     /\ u.path = "/app" /\ u.code = "c1" => u.state = "s0"}

User0 == [kind |-> "obj", sub |-> "user_0", email |-> "zero@example.com",
          firstName |-> "Zed", lastName |-> Undefined, profilePictureUrl |-> Undefined]

\* Sessions whose access token is not a JWT with a usable sid claim: two
\* segments, a payload that is not base64, a payload that is not JSON, and
\* an empty sid.
OddTokenSessions ==
  {StoreSession("hdr.sidpayload", User0, 1),
   StoreSession("hdr.!!!.sig", User0, 1),
   StoreSession("hdr.text.sig", User0, 1),
   StoreSession("hdr.emptysid.sig", User0, 1)}

\* A session whose JSON parses but whose user object has no sub, such as
\* another script of the origin or an earlier format may have left.
NoSubSessions ==
  {StoreSession("tok0", [User0 EXCEPT !.sub = Undefined], 1)}

\* What the session slot can hold when the tab opens.
\* A stored record that parses and has a user, but no accessToken.
NoTokenSessions == {StoreSession(Undefined, User0, 1)}

InitSessions ==
  OddTokenSessions \cup NoSubSessions \cup NoTokenSessions \cup
  {AbsentSlot, GarbageSlot, StoreSession("tok0", User0, 1),
   [kind |-> "json", value |-> "obj", accessToken |-> Undefined,
    user |-> UndefUser, storedAt |-> 0]}

\* What the proof slot can hold when the tab opens: nothing, text that is not
\* JSON, the proof of a sign-in started earlier, and records lacking a field.
InitProofs ==
  {AbsentSlot, GarbageSlot,
   StorePkce(CreatePkceBundle(0), 1),
   [kind |-> "json", state |-> "s0", codeVerifier |-> "v0",
    hasCreatedAt |-> FALSE, createdAt |-> 0],
   [kind |-> "json", state |-> "s0", codeVerifier |-> Undefined,
    hasCreatedAt |-> TRUE, createdAt |-> 1]}

RespUsers ==
  {[kind |-> "obj", id |-> "user_1", email |-> "ann@example.com",
    first_name |-> "Ann", last_name |-> JsNull, profile_picture_url |-> JsNull],
   [kind |-> "obj", id |-> "user_2", email |-> "bob@example.com",
    first_name |-> JsNull, last_name |-> "Bee", profile_picture_url |-> "pic"],
   UndefUser}

RespTokens == {"tok1"}

\* Outcomes of the POST: transport failure, a non-2xx status, a 2xx JSON body.
Responses ==
  {[kind |-> "neterr"], [kind |-> "http", status |-> 400]}
  \cup {[kind |-> "ok", body |-> [access_token |-> t, user |-> u]] :
          t \in RespTokens, u \in RespUsers}

\* The clock jumps by exactly the proof's maximum age, or one millisecond more.
TickSteps == {PKCE_MAX_AGE_MS, PKCE_MAX_AGE_MS + 1}

----------------------------------------------------------------------------
(* authkit.ts: startup *)

\* Mutant: the client id is never found missing, so startup always goes on.
ConfigMissing_Never(cfg) == FALSE

\* Mutant: only a client id that is not given at all counts as missing.
ConfigMissing_OnlyUndefined(cfg) == cfg.clientId = Undefined

\* if (!clientId)
ConfigMissing(cfg) == ~Truthy(cfg.clientId)

\* Mutant: any URL with a code parameter is taken for a callback.
IsCallbackUrl_AnyPath(cfg, u) == u.code # JsNull

\* isCallbackUrl
IsCallbackUrl(cfg, u) ==
  LET redirectPath == Pathname(cfg.redirectUri)
  IN  /\ (u.path = redirectPath \/ u.path = redirectPath \o "/")
      /\ u.code # JsNull


\* Mutant: the state comparison is skipped.
StateMismatch_Never(pkce, stateParam) == FALSE

\* pkce.state !== stateParam
StateMismatch(pkce, stateParam) == pkce.state # stateParam


\* Mutant: a state mismatch leaves the proof in its slot.
HandleCallbackStart_MismatchKeepsProof(u, slot, t) ==
  LET code       == u.code
      stateParam == u.state
      r          == RetrievePkce(slot, t)
  IN  IF ~Truthy(code) THEN [outcome |-> "nocode", slot |-> slot]
      ELSE IF ~r.res.found THEN [outcome |-> "missing", slot |-> r.slot]
      ELSE IF StateMismatch(r.res, stateParam)
             THEN [outcome |-> "mismatch", slot |-> r.slot]
      ELSE [outcome |-> "exchange", slot |-> r.slot,
            request |-> [kind |-> "req", code |-> code,
                         codeVerifier |-> r.res.codeVerifier]]

\* Mutant: only an absent code parameter ends callback processing at once.
HandleCallbackStart_EmptyCodeProceeds(u, slot, t) ==
  LET code       == u.code
      stateParam == u.state
      r          == RetrievePkce(slot, t)
  IN  IF code = JsNull THEN [outcome |-> "nocode", slot |-> slot]
      ELSE IF ~r.res.found THEN [outcome |-> "missing", slot |-> r.slot]
      ELSE IF StateMismatch(r.res, stateParam)
             THEN [outcome |-> "mismatch", slot |-> ClearPkce]
      ELSE [outcome |-> "exchange", slot |-> r.slot,
            request |-> [kind |-> "req", code |-> code,
                         codeVerifier |-> r.res.codeVerifier]]

\* handleCallback up to its first suspension point (or its return): the
\* outcome, the proof slot it leaves and the exchange request it issues.
HandleCallbackStart(u, slot, t) ==
  LET code       == u.code
      stateParam == u.state
      r          == RetrievePkce(slot, t)
  IN  IF ~Truthy(code) THEN [outcome |-> "nocode", slot |-> slot]
      ELSE IF ~r.res.found THEN [outcome |-> "missing", slot |-> r.slot]
      ELSE IF StateMismatch(r.res, stateParam)
             THEN [outcome |-> "mismatch", slot |-> ClearPkce]
      ELSE [outcome |-> "exchange", slot |-> r.slot,
            request |-> [kind |-> "req", code |-> code,
                         codeVerifier |-> r.res.codeVerifier]]

\* The diagnostics handleCallback writes before its first suspension point.
CallbackDiagnostics(outcome) ==
  IF outcome = "missing" THEN <<"missing-verifier">>
  ELSE IF outcome = "mismatch" THEN <<"state-mismatch">>
  ELSE <<>>

Init ==
  /\ config \in Configs
  /\ now = 1
  /\ url \in Urls
  /\ history = <<url>>
  /\ pkceSlot \in InitProofs
  /\ sessionSlot \in InitSessions
  /\ sessionSlot \in OddTokenSessions \cup NoSubSessions \cup NoTokenSessions =>
       url.path = "/app" /\ url.code = JsNull /\ pkceSlot = AbsentSlot
  /\ stateSlot = AbsentSlot
  /\ phase = "init"
  /\ exposed = FALSE
  /\ currentUser = NullUser
  /\ currentAccessToken = JsNull
  /\ inflight = NoRequest
  /\ response = NoResponse
  /\ readyValue = ReadyPending
  /\ signals = <<>>
  /\ errors = <<>>
  /\ navLog = <<>>
  /\ rejected = 0
  /\ pendingSignIn = NoSignIn
  /\ loads = 1
  /\ nextId = 0
  /\ sent = <<>>

\* The script runs in a freshly loaded document, up to the end of the IIFE.
Bootstrap ==
  /\ phase = "init"
  /\ IF ConfigMissing(config)
       THEN /\ errors' = Append(errors, "missing-client-id")
            /\ phase' = "disabled"
            /\ UNCHANGED <<exposed, currentUser, currentAccessToken, inflight,
                           readyValue, signals, pkceSlot, sent>>
     ELSE IF GetSessionThrows(sessionSlot)
       THEN /\ phase' = "crashed"
            /\ UNCHANGED <<exposed, currentUser, currentAccessToken, inflight,
                           readyValue, signals, pkceSlot, sent, errors>>
       ELSE LET existingSession == GetSession(sessionSlot)
                hydUser  == IF SessionTruthy(existingSession)
                              THEN existingSession.user ELSE NullUser
                hydToken == IF SessionTruthy(existingSession)
                              THEN existingSession.accessToken ELSE JsNull
                cb == HandleCallbackStart(url, pkceSlot, now)
            IN  /\ exposed' = TRUE
                /\ currentUser' = hydUser
                /\ currentAccessToken' = hydToken
                /\ IF config.autoCallback /\ IsCallbackUrl(config, url)
                     THEN /\ pkceSlot' = cb.slot
                          /\ errors' = errors \o CallbackDiagnostics(cb.outcome)
                          /\ UNCHANGED <<readyValue, signals>>
                          /\ IF cb.outcome = "exchange"
                               THEN /\ inflight' = ExchangeCodeStart(config, cb.request)
                                    /\ sent' = Append(sent,
                                         [load |-> loads, code |-> cb.request.code,
                                          codeVerifier |-> cb.request.codeVerifier,
                                          done |-> FALSE])
                                    /\ phase' = "exchanging"
                               ELSE /\ phase' = "resolved"
                                    /\ UNCHANGED <<inflight, sent>>
                     ELSE /\ readyValue' = ResolveReady(readyValue, hydUser)
                          /\ signals' = DispatchAuthKitEvent(signals, "ready", hydUser)
                          /\ phase' = "settled"
                          /\ UNCHANGED <<pkceSlot, errors, inflight, sent>>
  /\ UNCHANGED <<config, now, url, history, sessionSlot, stateSlot, navLog, rejected, response,
                 pendingSignIn, loads, nextId>>

(* authkit.ts: the exchange completes *)

\* cleanUrl.search = ""; history.replaceState({}, "", cleanUrl.toString())
CleanUrl(u) == [u EXCEPT !.code = JsNull, !.state = JsNull, !.tab = JsNull]

\* Mutant: the cleaned address is added as a new history entry.
ReplaceState_Pushes(h, u) == Append(h, u)

\* history.replaceState(state, "", u): the current entry, the last one this
\* document owns, is overwritten; no entry is added.
ReplaceState(h, u) == [h EXCEPT ![Len(h)] = u]

\* The history entry of the current document's request is marked handled.
MarkDone(log, load) ==
  [i \in DOMAIN log |->
     IF log[i].load = load THEN [log[i] EXCEPT !.done = TRUE] ELSE log[i]]

\* Mutant: the new session is kept in memory only.
HandleCallbackStore_MemoryOnly(m, tokenResponse, t) ==
  LET user == ExtractUser(tokenResponse)
  IN  [m EXCEPT !.user = user, !.token = tokenResponse.access_token]

\* const user = extractUser(tokenResponse); currentUser = user;
\* currentAccessToken = ...; storeSession(tokenResponse.access_token, user)
HandleCallbackStore(m, tokenResponse, t) ==
  LET user == ExtractUser(tokenResponse)
  IN  [m EXCEPT !.user = user,
                !.token = tokenResponse.access_token,
                !.session = StoreSession(tokenResponse.access_token, user, t)]

\* clearPkce(); the URL cleanup
HandleCallbackClean(m) ==
  LET h == ReplaceState(m.history, CleanUrl(m.url))
  IN  [m EXCEPT !.pkce = ClearPkce, !.history = h, !.url = h[Len(h)]]

\* What a listener inspecting the page sees of the callback's results: the
\* user in memory and in the session slot, an empty proof slot, and an
\* address without code and state.
CallbackResultsVisible(m, user) ==
  /\ m.user = user
  /\ m.session.kind = "json" /\ m.session.value = "obj"
  /\ m.session.user = user
  /\ m.pkce = AbsentSlot
  /\ m.url.code = JsNull /\ m.url.state = JsNull

\* dispatchAuthKitEvent("signed-in", { user }): the event records whether a
\* listener inspecting the page at this instant sees the callback's results.
HandleCallbackEmit(m, user) ==
  [m EXCEPT !.signals = Append(@, [name |-> "signed-in", user |-> user,
                                   done |-> CallbackResultsVisible(m, user)])]

\* Mutant: signed-in is dispatched as soon as the user is known, before the
\* session is stored and the proof and the URL are cleaned.
HandleCallbackTry_EmitFirst(m, tokenResponse, t) ==
  HandleCallbackClean(
    HandleCallbackStore(
      HandleCallbackEmit(m, ExtractUser(tokenResponse)), tokenResponse, t))

\* The try block of handleCallback after the await, in statement order.
HandleCallbackTry(m, tokenResponse, t) ==
  HandleCallbackEmit(
    HandleCallbackClean(HandleCallbackStore(m, tokenResponse, t)),
    ExtractUser(tokenResponse))

\* handleCallback resumes after `await exchangeCode(...)` in the try block:
\* the exchange returned a token response and extractUser did not throw.
ExchangeSucceeded(resp) ==
  LET m == HandleCallbackTry([user |-> currentUser, token |-> currentAccessToken,
                              session |-> sessionSlot, pkce |-> pkceSlot,
                              url |-> url, history |-> history,
                              signals |-> signals], resp.body, now)
  IN  /\ currentUser' = m.user
      /\ currentAccessToken' = m.token
      /\ sessionSlot' = m.session
      /\ pkceSlot' = m.pkce
      /\ history' = m.history
      /\ url' = m.url
      /\ signals' = m.signals
      /\ UNCHANGED errors

\* Mutant: the catch block signs the user out.
ExchangeFailed_ClearsSession ==
  /\ errors' = Append(errors, "exchange-failed")
  /\ pkceSlot' = ClearPkce
  /\ sessionSlot' = ClearSession
  /\ currentUser' = NullUser
  /\ currentAccessToken' = JsNull
  /\ UNCHANGED <<url, history, signals>>

\* Mutant: the catch block leaves the proof in its slot.
ExchangeFailed_KeepsProof ==
  /\ errors' = Append(errors, "exchange-failed")
  /\ UNCHANGED <<pkceSlot, currentUser, currentAccessToken, sessionSlot, url, history,
                 signals>>

\* handleCallback resumes in the catch block: the exchange or extractUser threw.
ExchangeFailed ==
  /\ errors' = Append(errors, "exchange-failed")
  /\ pkceSlot' = ClearPkce
  /\ UNCHANGED <<currentUser, currentAccessToken, sessionSlot, url, history, signals>>

\* Mutant: a failed exchange is sent once more.
ExchangeResolve_RetriesOnce(resp) ==
  /\ phase = "exchanging"
  /\ inflight.kind = "req"
  /\ IF ExchangeThrows(resp)
          /\ Cardinality({i \in DOMAIN sent : sent[i].load = loads}) < 2
       THEN /\ sent' = Append(sent, [load |-> loads, code |-> inflight.code,
                                     codeVerifier |-> inflight.codeVerifier,
                                     done |-> FALSE])
            /\ UNCHANGED <<inflight, response, phase, errors, pkceSlot,
                           currentUser, currentAccessToken, sessionSlot, url, history,
                           signals>>
       ELSE /\ IF ExchangeThrows(resp) THEN ExchangeFailed
               ELSE ExchangeSucceeded(resp)
            /\ inflight' = NoRequest
            /\ response' = resp
            /\ sent' = MarkDone(sent, loads)
            /\ phase' = "resolved"
  /\ UNCHANGED <<config, now, stateSlot, exposed, readyValue, navLog, rejected,
                 pendingSignIn, loads, nextId>>

\* The response to the exchange request arrives and handleCallback runs to
\* its end; the promise it returned is fulfilled.
ExchangeResolve(resp) ==
  /\ phase = "exchanging"
  /\ inflight.kind = "req"
  /\ IF ExchangeThrows(resp) THEN ExchangeFailed ELSE ExchangeSucceeded(resp)
  /\ inflight' = NoRequest
  /\ response' = resp
  /\ sent' = MarkDone(sent, loads)
  /\ phase' = "resolved"
  /\ UNCHANGED <<config, now, stateSlot, exposed, readyValue, navLog, rejected,
                 pendingSignIn, loads, nextId>>


\* Mutant: ready is dispatched by the callback and again by a finally().
ThenReady_Twice ==
  /\ phase = "resolved"
  /\ readyValue' = ResolveReady(readyValue, currentUser)
  /\ signals' = DispatchAuthKitEvent(
                  DispatchAuthKitEvent(signals, "ready", currentUser),
                  "ready", currentUser)
  /\ phase' = "settled"
  /\ UNCHANGED <<config, now, url, history, pkceSlot, sessionSlot, stateSlot, exposed,
                 currentUser, currentAccessToken, inflight, response, errors,
                 navLog, rejected, pendingSignIn, loads, nextId, sent>>

\* Mutant: ready is delivered only when a user is signed in.
ThenReady_OnlyWithUser ==
  /\ phase = "resolved"
  /\ UserTruthy(currentUser)
  /\ readyValue' = ResolveReady(readyValue, currentUser)
  /\ signals' = DispatchAuthKitEvent(signals, "ready", currentUser)
  /\ phase' = "settled"
  /\ UNCHANGED <<config, now, url, history, pkceSlot, sessionSlot, stateSlot, exposed,
                 currentUser, currentAccessToken, inflight, response, errors,
                 navLog, rejected, pendingSignIn, loads, nextId, sent>>

\* The .then() callback of handleCallback(): runs as a microtask as soon as
\* the promise returned by handleCallback is fulfilled.
ThenReady ==
  /\ phase = "resolved"
  /\ readyValue' = ResolveReady(readyValue, currentUser)
  /\ signals' = DispatchAuthKitEvent(signals, "ready", currentUser)
  /\ phase' = "settled"
  /\ UNCHANGED <<config, now, url, history, pkceSlot, sessionSlot, stateSlot, exposed,
                 currentUser, currentAccessToken, inflight, response, errors,
                 navLog, rejected, pendingSignIn, loads, nextId, sent>>

----------------------------------------------------------------------------
(* The browser *)

\* The tab leaves the current document and loads the document at u (a link,
\* a typed address, a reload, the provider's redirect, or a navigation that
\* the script requested).  Whatever the old document was waiting for is lost.
Navigate(u) ==
  /\ phase \notin {"init", "resolved"}
  /\ loads < MaxLoads
  /\ url' = u
  /\ history' = <<u>>
  /\ loads' = loads + 1
  /\ phase' = "init"
  /\ exposed' = FALSE
  /\ currentUser' = NullUser
  /\ currentAccessToken' = JsNull
  /\ inflight' = NoRequest
  /\ response' = NoResponse
  /\ readyValue' = ReadyPending
  /\ signals' = <<>>
  /\ errors' = <<>>
  /\ navLog' = <<>>
  /\ rejected' = 0
  /\ pendingSignIn' = NoSignIn
  /\ UNCHANGED <<config, now, pkceSlot, sessionSlot, stateSlot, nextId, sent>>

\* Time passes while the tab is away from the application: the clock is
\* advanced before the script of a newly loaded document runs.
Tick(d) ==
  /\ phase = "init"
  /\ now + d <= MaxNow
  /\ now' = now + d
  /\ UNCHANGED <<config, url, history, pkceSlot, sessionSlot, stateSlot, phase, exposed,
                 currentUser, currentAccessToken, inflight, response, readyValue,
                 signals, errors, navLog, rejected, pendingSignIn, loads, nextId, sent>>

----------------------------------------------------------------------------
(* urls.ts *)

\* Mutant: a missing optional value is set as an empty parameter.
OptionalParam_EmptyWhenMissing(value) == IF Truthy(value) THEN value ELSE ""

\* searchParams.set(name, value) only `if (value)`; JsNull is "not present".
OptionalParam(value) == IF Truthy(value) THEN value ELSE JsNull

\* createAuthorizeUrl
CreateAuthorizeUrl(cfg, params) ==
  [path                  |-> "/user_management/authorize",
   client_id             |-> cfg.clientId,
   redirect_uri          |-> cfg.redirectUri,
   response_type         |-> "code",
   code_challenge        |-> params.codeChallenge,
   code_challenge_method |-> "S256",
   state                 |-> params.state,
   screen_hint           |-> OptionalParam(params.screenHint),
   login_hint            |-> OptionalParam(params.loginHint),
   organization_id       |-> OptionalParam(params.organizationId),
   invitation_token      |-> OptionalParam(params.invitationToken)]

\* createLogoutUrl
CreateLogoutUrl(cfg, sessionId, returnTo) ==
  [path       |-> "/user_management/sessions/logout",
   session_id |-> sessionId,
   return_to  |-> OptionalParam(returnTo)]

----------------------------------------------------------------------------
(* token.ts: decodeJwtClaims *)

NoClaims == [kind |-> "null"]

\* The access tokens of the model, described by what the steps of
\* decodeJwtClaims see: the number of segments token.split(".") yields,
\* whether atob accepts the second segment, whether JSON.parse accepts the
\* decoded text, and the sid claim of the parsed payload.
TokenShape(token) ==
  IF token = "tok0"
    THEN [segments |-> 3, base64 |-> TRUE, json |-> TRUE, sid |-> "sess_0"]
  ELSE IF token = "tok1"
    THEN [segments |-> 3, base64 |-> TRUE, json |-> TRUE, sid |-> Undefined]
  ELSE IF token = "hdr.sidpayload"
    THEN [segments |-> 2, base64 |-> TRUE, json |-> TRUE, sid |-> "sess_2"]
  ELSE IF token = "hdr.!!!.sig"
    THEN [segments |-> 3, base64 |-> FALSE, json |-> FALSE, sid |-> Undefined]
  ELSE IF token = "hdr.text.sig"
    THEN [segments |-> 3, base64 |-> TRUE, json |-> FALSE, sid |-> Undefined]
  ELSE IF token = "hdr.emptysid.sig"
    THEN [segments |-> 3, base64 |-> TRUE, json |-> TRUE, sid |-> ""]
  ELSE [segments |-> 1, base64 |-> FALSE, json |-> FALSE, sid |-> Undefined]

\* Mutant: the number of segments is not checked.
DecodeJwtClaims_AnySegments(token) ==
  LET shape == TokenShape(token)
  IN  IF shape.segments < 2 THEN NoClaims
      ELSE IF ~shape.base64 THEN NoClaims
      ELSE IF ~shape.json THEN NoClaims
      ELSE [kind |-> "obj", sid |-> shape.sid]

\* decodeJwtClaims: null unless the token has three segments, the second
\* one decodes and the decoded text parses; atob and JSON.parse throw inside
\* the try block.
DecodeJwtClaims(token) ==
  LET shape == TokenShape(token)
  IN  IF shape.segments # 3 THEN NoClaims
      ELSE IF ~shape.base64 THEN NoClaims
      ELSE IF ~shape.json THEN NoClaims
      ELSE [kind |-> "obj", sid |-> shape.sid]

----------------------------------------------------------------------------
(* authkit.ts: the public operations *)

SignInOpts ==
  {[screenHint |-> Undefined, loginHint |-> Undefined, organizationId |-> Undefined,
    invitationToken |-> Undefined, state |-> Undefined],
   [screenHint |-> "sign-in", loginHint |-> "ann@example.com",
    organizationId |-> Undefined, invitationToken |-> "", state |-> "route"],
   [screenHint |-> "sign-up", loginHint |-> Undefined, organizationId |-> "org_1",
    invitationToken |-> "inv_1", state |-> Undefined]}

\* signUp is called with no options or with a hint and options of its own.
SignUpOpts == {o \in SignInOpts : o.screenHint # "sign-up"}

ReturnTos == {Undefined, "/bye"}

\* The public operations exist once window.AuthKit is assigned; the page's
\* own code runs between the tasks of the script, not inside its microtasks,
\* and not once the document has started to leave.
CanCall == exposed /\ phase \in {"exchanging", "settled"} /\ navLog = <<>>

\* A signIn call suspended at `await createPkceBundle()`: the operation the
\* page called and the options it passed, the options signIn received, and
\* the random strings already drawn.
SignInBegin(via, given, opts) ==
  /\ CanCall
  /\ nextId < MaxSignIns
  /\ nextId' = nextId + 1
  /\ pendingSignIn' = pendingSignIn \cup
       {[via |-> via, given |-> given, opts |-> opts,
         bundle |-> CreatePkceBundle(nextId + 1)]}
  /\ UNCHANGED <<config, now, url, history, pkceSlot, sessionSlot, stateSlot, phase,
                 exposed, currentUser, currentAccessToken, inflight, response,
                 readyValue, signals, errors, navLog, rejected, loads, sent>>

\* signIn(opts) up to the digest.
SignInStart(opts) == SignInBegin("signIn", opts, opts)

\* Mutant: the caller's screen hint is spread over the forced one.
SignUpStart_CallerHintWins(opts) ==
  SignInBegin("signUp", opts,
              [opts EXCEPT !.screenHint =
                 IF opts.screenHint = Undefined THEN "sign-up" ELSE opts.screenHint])

\* signUp(opts): signIn({ ...opts, screenHint: "sign-up" })
SignUpStart(opts) ==
  SignInBegin("signUp", opts, [opts EXCEPT !.screenHint = "sign-up"])

\* Mutant: the opaque state is written whether or not it was passed.
StoreOpaqueState_Always(slot, opts) == [kind |-> "json", value |-> opts.state]

\* if (opts?.state) sessionStorage.setItem("authkit:state", JSON.stringify(opts.state))
StoreOpaqueState(slot, opts) ==
  IF Truthy(opts.state) THEN [kind |-> "json", value |-> opts.state] ELSE slot

\* Mutant: the bundle is kept in a variable the suspended calls share, so a
\* resuming call may persist the bundle of another one.
SignInFinish_SharedBundle ==
  /\ phase # "resolved"
  /\ \E p \in pendingSignIn : \E q \in pendingSignIn :
       LET opts   == p.opts
           bundle == p.bundle
           target == CreateAuthorizeUrl(config,
                       [codeChallenge   |-> bundle.codeChallenge,
                        state           |-> bundle.state,
                        screenHint      |-> opts.screenHint,
                        loginHint       |-> opts.loginHint,
                        organizationId  |-> opts.organizationId,
                        invitationToken |-> opts.invitationToken])
       IN  /\ pkceSlot' = StorePkce(q.bundle, now)
           /\ stateSlot' = StoreOpaqueState(stateSlot, opts)
           /\ navLog' = Append(navLog, [kind |-> "assign", to |-> "authorize",
                                        target |-> target])
           /\ pendingSignIn' = pendingSignIn \ {p}
  /\ UNCHANGED <<config, now, url, history, sessionSlot, phase, exposed, currentUser,
                 currentAccessToken, inflight, response, readyValue, signals,
                 errors, loads, nextId, rejected, sent>>

\* Mutant: signIn drops the current session before it navigates.
SignInFinish_SignsOut ==
  /\ phase # "resolved"
  /\ \E p \in pendingSignIn :
       LET opts   == p.opts
           bundle == p.bundle
           target == CreateAuthorizeUrl(config,
                       [codeChallenge   |-> bundle.codeChallenge,
                        state           |-> bundle.state,
                        screenHint      |-> opts.screenHint,
                        loginHint       |-> opts.loginHint,
                        organizationId  |-> opts.organizationId,
                        invitationToken |-> opts.invitationToken])
       IN  /\ pkceSlot' = StorePkce(bundle, now)
           /\ stateSlot' = StoreOpaqueState(stateSlot, opts)
           /\ navLog' = Append(navLog, [kind |-> "assign", to |-> "authorize",
                                        target |-> target])
           /\ pendingSignIn' = pendingSignIn \ {p}
  /\ sessionSlot' = ClearSession
  /\ currentUser' = NullUser
  /\ currentAccessToken' = JsNull
  /\ UNCHANGED <<config, now, url, history, phase, exposed, inflight, response,
                 readyValue, signals, errors, loads, nextId, rejected, sent>>

\* One suspended signIn call resumes after the digest: storePkce,
\* createAuthorizeUrl, the opaque state, window.location.assign.
SignInFinish ==
  /\ phase # "resolved"
  /\ \E p \in pendingSignIn :
       LET opts   == p.opts
           bundle == p.bundle
           target == CreateAuthorizeUrl(config,
                       [codeChallenge   |-> bundle.codeChallenge,
                        state           |-> bundle.state,
                        screenHint      |-> opts.screenHint,
                        loginHint       |-> opts.loginHint,
                        organizationId  |-> opts.organizationId,
                        invitationToken |-> opts.invitationToken])
       IN  /\ pkceSlot' = StorePkce(bundle, now)
           /\ stateSlot' = StoreOpaqueState(stateSlot, opts)
           /\ navLog' = Append(navLog, [kind |-> "assign", to |-> "authorize",
                                        target |-> target])
           /\ pendingSignIn' = pendingSignIn \ {p}
  /\ UNCHANGED <<config, now, url, history, sessionSlot, phase, exposed, currentUser,
                 currentAccessToken, inflight, response, readyValue, signals,
                 errors, loads, nextId, rejected, sent>>

\* signOut is a sequence of statements over the event log, the session slot,
\* the in-memory user and token, and the navigation log; m.entry is what
\* getUser, getAccessToken and the session slot held when signOut was called.
Observable(m) == [user |-> m.user, token |-> m.token, session |-> m.session]

\* dispatchAuthKitEvent("signed-out"): the event records whether a listener
\* inspecting the page at this instant still sees what signOut started with.
SignOutEmit(m) ==
  [m EXCEPT !.signals = Append(@, [name |-> "signed-out", user |-> UndefUser,
                                   intact |-> Observable(m) = m.entry])]

\* Mutant: the in-memory state is cleared, the session slot is not.
SignOutClear_MemoryOnly(m) == [m EXCEPT !.user = NullUser, !.token = JsNull]

\* clearSession(); currentUser = null; currentAccessToken = null
SignOutClear(m) ==
  [m EXCEPT !.session = ClearSession, !.user = NullUser, !.token = JsNull]

\* The logout URL when the outgoing token's claims carry a sid, else the
\* return target, else a reload; the navigation records what the page holds
\* when it is requested.
SignOutNavigate(m, accessToken, returnTo) ==
  LET claims    == IF Truthy(accessToken) THEN DecodeJwtClaims(accessToken)
                   ELSE NoClaims
      sessionId == IF claims.kind = "obj" THEN claims.sid ELSE Undefined
  IN  [m EXCEPT !.nav = Append(@,
        IF Truthy(accessToken) /\ Truthy(sessionId)
          THEN [kind |-> "assign", to |-> "logout",
                target |-> CreateLogoutUrl(config, sessionId, returnTo),
                seen |-> Observable(m)]
        ELSE IF Truthy(returnTo)
          THEN [kind |-> "assign", to |-> "returnTo", target |-> returnTo,
                seen |-> Observable(m)]
        ELSE [kind |-> "reload", to |-> "self", target |-> JsNull,
              seen |-> Observable(m)])]

\* Mutant: the state is cleared before the event is dispatched.
SignOutRun_ClearFirst(m, returnTo) ==
  LET accessToken == m.token
  IN  SignOutNavigate(SignOutEmit(SignOutClear(m)), accessToken, returnTo)

\* The body of signOut, in statement order; the outgoing token is read
\* after the event is dispatched and before the state is cleared.
SignOutRun(m, returnTo) ==
  LET emitted     == SignOutEmit(m)
      accessToken == emitted.token
  IN  SignOutNavigate(SignOutClear(emitted), accessToken, returnTo)

\* Mutant: signOut settles ready again, with no user.
SignOut_ResettlesReady(returnTo) ==
  /\ CanCall
  /\ LET m == SignOutRun([signals |-> signals, session |-> sessionSlot,
                          user |-> currentUser, token |-> currentAccessToken,
                          nav |-> navLog,
                          entry |-> [user |-> currentUser,
                                     token |-> currentAccessToken,
                                     session |-> sessionSlot]], returnTo)
     IN  /\ signals' = m.signals
         /\ sessionSlot' = m.session
         /\ currentUser' = m.user
         /\ currentAccessToken' = m.token
         /\ navLog' = m.nav
  /\ readyValue' = [kind |-> "resolved", user |-> NullUser]
  /\ UNCHANGED <<config, now, url, history, pkceSlot, stateSlot, phase, exposed, inflight,
                 response, errors, pendingSignIn, loads, nextId, rejected, sent>>

\* signOut
SignOut(returnTo) ==
  /\ CanCall
  /\ LET m == SignOutRun([signals |-> signals, session |-> sessionSlot,
                          user |-> currentUser, token |-> currentAccessToken,
                          nav |-> navLog,
                          entry |-> [user |-> currentUser,
                                     token |-> currentAccessToken,
                                     session |-> sessionSlot]], returnTo)
     IN  /\ signals' = m.signals
         /\ sessionSlot' = m.session
         /\ currentUser' = m.user
         /\ currentAccessToken' = m.token
         /\ navLog' = m.nav
  /\ UNCHANGED <<config, now, url, history, pkceSlot, stateSlot, phase, exposed, inflight,
                 response, readyValue, errors, pendingSignIn, loads, nextId, rejected, sent>>

\* Mutant: the proof is persisted before the bundle is complete, so a failed
\* creation leaves a proof behind.
SignInFail_StoresProof ==
  /\ phase # "resolved"
  /\ \E p \in pendingSignIn :
       /\ pkceSlot' = StorePkce(p.bundle, now)
       /\ pendingSignIn' = pendingSignIn \ {p}
  /\ rejected' = rejected + 1
  /\ UNCHANGED <<config, now, url, history, sessionSlot, stateSlot, phase,
                 exposed, currentUser, currentAccessToken, inflight, response,
                 readyValue, signals, errors, navLog, loads, nextId, sent>>

\* createPkceBundle fails in one suspended signIn call (crypto.getRandomValues
\* or crypto.subtle.digest is missing or rejects): the await throws, the
\* promise signIn returned is rejected and nothing after the await runs.
SignInFail ==
  /\ phase # "resolved"
  /\ \E p \in pendingSignIn : pendingSignIn' = pendingSignIn \ {p}
  /\ rejected' = rejected + 1
  /\ UNCHANGED <<config, now, url, history, pkceSlot, sessionSlot, stateSlot,
                 phase, exposed, currentUser, currentAccessToken, inflight,
                 response, readyValue, signals, errors, navLog, loads, nextId,
                 sent>>

Next ==
  \/ Bootstrap
  \/ \E resp \in Responses : ExchangeResolve(resp)
  \/ ThenReady
  \/ \E u \in Urls : Navigate(u)
  \/ \E d \in TickSteps : Tick(d)
  \/ \E opts \in SignInOpts : SignInStart(opts)
  \/ \E opts \in SignUpOpts : SignUpStart(opts)
  \/ SignInFinish
  \/ SignInFail
  \/ \E returnTo \in ReturnTos : SignOut(returnTo)

Spec == Init /\ [][Next]_vars

\* The scheduling the browser guarantees: a loaded script runs, a fulfilled
\* promise runs its callbacks, and the exchange request gets a response or
\* fails.
LiveSpec ==
  /\ Spec
  /\ WF_vars(Bootstrap)
  /\ WF_vars(ThenReady)
  /\ WF_vars(\E resp \in Responses : ExchangeResolve(resp))

\* Overlapping signIn calls: the application page has run its script and
\* settled from the stored session, and the page has called signIn once; that
\* call is suspended at the digest with the bundle it drew (bundle 0), which
\* is not persisted yet.
OverlapInit ==
  /\ config = [clientId |-> "client_1", redirectUri |-> Origin \o "/callback",
               autoCallback |-> TRUE]
  /\ now = 1
  /\ url = [path |-> "/app", code |-> JsNull, state |-> JsNull, tab |-> JsNull]
  /\ history = <<url>>
  /\ pkceSlot \in {AbsentSlot, GarbageSlot}
  /\ sessionSlot \in {AbsentSlot, StoreSession("tok0", User0, 1)}
  /\ stateSlot = AbsentSlot
  /\ phase = "settled"
  /\ exposed = TRUE
  /\ LET existingSession == GetSession(sessionSlot)
         hydUser  == IF SessionTruthy(existingSession)
                       THEN existingSession.user ELSE NullUser
         hydToken == IF SessionTruthy(existingSession)
                       THEN existingSession.accessToken ELSE JsNull
     IN  /\ currentUser = hydUser
         /\ currentAccessToken = hydToken
         /\ readyValue = ResolveReady(ReadyPending, hydUser)
         /\ signals = DispatchAuthKitEvent(<<>>, "ready", hydUser)
  /\ inflight = NoRequest
  /\ response = NoResponse
  /\ errors = <<>>
  /\ navLog = <<>>
  /\ rejected = 0
  /\ \E opts \in SignInOpts :
       pendingSignIn = {[via |-> "signIn", given |-> opts, opts |-> opts,
                         bundle |-> CreatePkceBundle(0)]}
  /\ loads = 1
  /\ nextId = 0
  /\ sent = <<>>

OverlapSpec == OverlapInit /\ [][Next]_vars

\* The tab opens with a localStorage that may be unusable (blocked by the
\* browser's settings or by the frame's sandbox), at any address and with
\* any proof left in sessionStorage.
StorageDownInit ==
  /\ config \in Configs
  /\ now = 1
  /\ url \in Urls
  /\ history = <<url>>
  /\ pkceSlot \in InitProofs
  /\ sessionSlot \in {UnavailableSlot, AbsentSlot, StoreSession("tok0", User0, 1)}
  /\ stateSlot = AbsentSlot
  /\ phase = "init"
  /\ exposed = FALSE
  /\ currentUser = NullUser
  /\ currentAccessToken = JsNull
  /\ inflight = NoRequest
  /\ response = NoResponse
  /\ readyValue = ReadyPending
  /\ signals = <<>>
  /\ errors = <<>>
  /\ navLog = <<>>
  /\ rejected = 0
  /\ pendingSignIn = NoSignIn
  /\ loads = 1
  /\ nextId = 0
  /\ sent = <<>>

StorageDownSpec == StorageDownInit /\ [][Next]_vars

\* Every combination of the four optional parameters of the authorize URL,
\* each one left out or supplied, the login hint also as an empty string.
AuthorizeOpts ==
  [screenHint      : {Undefined, "sign-in"},
   loginHint       : {Undefined, "", "ann@example.com"},
   organizationId  : {Undefined, "org_1"},
   invitationToken : {Undefined, "inv_1"},
   state           : {Undefined}]

\* The authorize URL over all option combinations: a signed-out document of
\* the application page in which signIn was called with any of them and is
\* suspended at the digest.
AuthorizeInit ==
  /\ config = [clientId |-> "client_1", redirectUri |-> Origin \o "/callback",
               autoCallback |-> TRUE]
  /\ now = 1
  /\ url = [path |-> "/app", code |-> JsNull, state |-> JsNull, tab |-> JsNull]
  /\ history = <<url>>
  /\ pkceSlot = AbsentSlot
  /\ sessionSlot = AbsentSlot
  /\ stateSlot = AbsentSlot
  /\ phase = "settled"
  /\ exposed = TRUE
  /\ currentUser = NullUser
  /\ currentAccessToken = JsNull
  /\ readyValue = ResolveReady(ReadyPending, NullUser)
  /\ signals = DispatchAuthKitEvent(<<>>, "ready", NullUser)
  /\ inflight = NoRequest
  /\ response = NoResponse
  /\ errors = <<>>
  /\ navLog = <<>>
  /\ rejected = 0
  /\ \E opts \in AuthorizeOpts :
       pendingSignIn = {[via |-> "signIn", given |-> opts, opts |-> opts,
                         bundle |-> CreatePkceBundle(0)]}
  /\ loads = 1
  /\ nextId = 0
  /\ sent = <<>>

AuthorizeSpec == AuthorizeInit /\ [][Next]_vars

----------------------------------------------------------------------------
(* Readers and vocabulary of the properties *)

\* getUser / getAccessToken
GetUser == currentUser
GetAccessToken == currentAccessToken

Range(seq) == {seq[i] : i \in DOMAIN seq}

Emitted(name) == {i \in DOMAIN signals : signals[i].name = name}

ReadyCount == Cardinality(Emitted("ready"))

\* The exchange requests the current document has issued.
LoadRequests == {i \in DOMAIN sent : sent[i].load = loads}

\* The step in which the script of a loaded document runs.
StartupStep == phase = "init" /\ phase' # "init"

\* Startup enters callback processing, and the URL carries a non-empty code.
CallbackRuns ==
  /\ ~ConfigMissing(config)
  /\ config.autoCallback
  /\ IsCallbackUrl(config, url)
  /\ Truthy(url.code)

\* The step in which handleCallback returns.
CallbackEnds == phase # "resolved" /\ phase' = "resolved"

\* The proof slot holds nothing retrievable: missing, not JSON, a record
\* without state or verifier, or a record older than ten minutes.
ProofMalformed(slot) ==
  \/ slot.kind = "garbage"
  \/ slot.kind = "json" /\ (~Truthy(slot.state) \/ ~Truthy(slot.codeVerifier))

ProofOlderThanTenMinutes(slot, t) ==
  /\ slot.kind = "json"
  /\ slot.hasCreatedAt
  /\ t - slot.createdAt > PKCE_MAX_AGE_MS

ProofUnusable(slot, t) ==
  \/ slot.kind = "absent"
  \/ ProofMalformed(slot)
  \/ ProofOlderThanTenMinutes(slot, t)

\* A 2xx response that carries a user object.
ExchangeOk(resp) == resp.kind = "ok" /\ resp.body.user.kind = "obj"

\* The normalized projection of the provider's user object.
Normalized(u) ==
  [kind              |-> "obj",
   sub               |-> u.id,
   email             |-> u.email,
   firstName         |-> IF u.first_name = JsNull THEN Undefined ELSE u.first_name,
   lastName          |-> IF u.last_name = JsNull THEN Undefined ELSE u.last_name,
   profilePictureUrl |-> IF u.profile_picture_url = JsNull THEN Undefined
                         ELSE u.profile_picture_url]

\* What startup hydration makes of the session slot.
Hydrated(slot) ==
  IF slot.kind = "json" /\ slot.value = "obj"
    THEN [user |-> slot.user, token |-> slot.accessToken]
    ELSE [user |-> NullUser, token |-> JsNull]

----------------------------------------------------------------------------
(* Properties *)

\* C1: an exchange request is issued only by callback processing at startup,
\* and only when the state of the stored proof equals the state parameter of
\* the current URL; with a different state, or no state parameter, the page
\* load never issues a request.
C1_ExchangeOnlyOnStateMatch ==
  [][Len(sent') > Len(sent) =>
       /\ StartupStep
       /\ pkceSlot.kind = "json"
       /\ url.state # JsNull
       /\ pkceSlot.state = url.state
       /\ url' = url]_vars

C1_Witness ==
  /\ phase = "settled"
  /\ errors = <<"state-mismatch">>
  /\ url.state = JsNull
  /\ LoadRequests = {}

\* C2: when callback processing retrieves no proof (slot missing, malformed
\* or expired) it records the missing-verifier diagnostic and returns; a page
\* load with that diagnostic has issued no exchange request.
C2_MissingProofNoExchange ==
  /\ [][(StartupStep /\ CallbackRuns /\ ProofUnusable(pkceSlot, now)) =>
          /\ errors' = <<"missing-verifier">>
          /\ phase' = "resolved"
          /\ inflight' = NoRequest
          /\ sent' = sent]_vars
  /\ []("missing-verifier" \in Range(errors) =>
          LoadRequests = {} /\ inflight = NoRequest)

C2_Witness ==
  /\ phase = "settled"
  /\ errors = <<"missing-verifier">>
  /\ pkceSlot = GarbageSlot

\* C3: a page load emits ready at most once, has emitted it exactly once
\* when it is settled, and once settled stays settled until the tab leaves
\* the document.
C3_ReadyExactlyOnce ==
  /\ [](/\ ReadyCount <= 1
        /\ (phase = "settled") = (ReadyCount = 1)
        /\ (phase = "settled") = (readyValue.kind = "resolved"))
  /\ [][phase = "settled" => phase' \in {"settled", "init"}]_vars

C3_Witness ==
  /\ phase = "settled"
  /\ response.kind = "http"
  /\ ReadyCount = 1

\* C4: every page load with a valid configuration reaches Settled unless the
\* tab leaves the document first, given that the exchange gets its response;
\* a startup that does not process a callback settles in the startup step.
C4_EventuallySettled ==
  /\ \A n \in 1..MaxLoads :
       (loads = n /\ ~ConfigMissing(config))
         ~> ((loads = n /\ phase = "settled" /\ ReadyCount = 1) \/ loads > n)
  /\ [][(StartupStep /\ ~ConfigMissing(config)
         /\ ~(config.autoCallback /\ IsCallbackUrl(config, url))) =>
          /\ phase' = "settled"
          /\ readyValue'.kind = "resolved"
          /\ ReadyCount' = 1]_vars

C4_Witness ==
  /\ phase = "settled"
  /\ response.kind = "neterr"
  /\ readyValue.kind = "resolved"

\* C5: when callback processing ended in a failure branch, the ready signal
\* carries no user.
C5_FailureReadyCarriesNoUser ==
  (phase = "settled" /\ errors # <<>>) =>
    /\ readyValue.kind = "resolved"
    /\ readyValue.user.kind # "obj"
    /\ \A i \in Emitted("ready") : signals[i].user.kind # "obj"

\* C6: the step in which callback processing fails (missing proof, state
\* mismatch, failed exchange) writes nothing to the session slot and leaves
\* the in-memory user and token as hydration set them; delivering ready
\* changes none of them either.
C6_FailureLeavesSession ==
  /\ [][(CallbackEnds /\ Len(errors') > Len(errors)) =>
          /\ sessionSlot' = sessionSlot
          /\ IF phase = "init"
               THEN /\ currentUser' = Hydrated(sessionSlot).user
                    /\ currentAccessToken' = Hydrated(sessionSlot).token
               ELSE UNCHANGED memoryVars]_vars
  /\ [][phase = "resolved" => UNCHANGED <<sessionSlot, memoryVars>>]_vars

C6_Witness ==
  /\ phase = "settled"
  /\ errors = <<"exchange-failed">>
  /\ currentUser = User0
  /\ sessionSlot = StoreSession("tok0", User0, 1)

\* C7: signed-in is emitted exactly once on a page load whose exchange
\* succeeded and never otherwise; it carries the normalized projection of the
\* response's user, and the ready signal of that page load carries the same.
C7_SignedInOnlyOnSuccess ==
  /\ Cardinality(Emitted("signed-in")) = (IF ExchangeOk(response) THEN 1 ELSE 0)
  /\ \A i \in Emitted("signed-in") :
       /\ signals[i].user = Normalized(response.body.user)
       /\ \A j \in Emitted("ready") : signals[j].user = signals[i].user
       /\ phase = "settled" =>
            /\ ReadyCount = 1
            /\ readyValue = [kind |-> "resolved", user |-> signals[i].user]

C7_Witness ==
  /\ phase = "settled"
  /\ Emitted("signed-in") # {}
  /\ ExchangeOk(response)
  /\ response.body.user.first_name = JsNull

\* C8: after a successful exchange (and until a signOut) the session slot
\* holds the response's access token and normalized user, and getUser and
\* getAccessToken return them.
C8_SuccessStoresSession ==
  (ExchangeOk(response) /\ Emitted("signed-out") = {}) =>
    /\ sessionSlot.kind = "json"
    /\ sessionSlot.value = "obj"
    /\ sessionSlot.accessToken = response.body.access_token
    /\ sessionSlot.user = Normalized(response.body.user)
    /\ GetUser = Normalized(response.body.user)
    /\ GetAccessToken = response.body.access_token

C8_Witness ==
  /\ ExchangeOk(response)
  /\ phase = "settled"
  /\ GetAccessToken = "tok1"
  /\ sessionSlot.storedAt > 1

\* C9 as stated: when callback processing of a URL with a non-empty code
\* returns, the proof slot is empty.
C9_ProofEmptyAfterCallback ==
  [][(CallbackEnds /\ Truthy(url.code)) => pkceSlot' = AbsentSlot]_vars

\* C9 amended: when callback processing of a URL with a non-empty code
\* returns, the proof slot is empty, unless the stored record was malformed
\* (not JSON, or without state or verifier): that record is left in place.
C9_ProofEmptyUnlessMalformed ==
  [][(CallbackEnds /\ Truthy(url.code)) =>
       IF phase = "init" /\ ProofMalformed(pkceSlot)
         THEN pkceSlot' = pkceSlot
         ELSE pkceSlot' = AbsentSlot]_vars

C9_Witness ==
  /\ phase = "settled"
  /\ errors = <<"state-mismatch">>
  /\ pkceSlot = AbsentSlot

\* C10 as stated: no code verifier is sent in two exchange requests.
C10_VerifierSentOnce ==
  \A i, j \in DOMAIN sent :
    i # j => sent[i].codeVerifier # sent[j].codeVerifier

\* C10 amended: a page load sends at most one request, and a verifier is sent
\* again only by a later page load that started while no response to an
\* earlier request carrying it had been handled; once callback processing has
\* handled a response, that verifier is never sent again.
C10_VerifierNotSentAfterHandled ==
  \A i, j \in DOMAIN sent :
    (i < j /\ sent[i].codeVerifier = sent[j].codeVerifier) =>
      /\ sent[i].load < sent[j].load
      /\ ~sent[i].done

C10_Witness ==
  \E i, j \in DOMAIN sent :
    /\ i < j
    /\ sent[i].codeVerifier = sent[j].codeVerifier
    /\ sent[j].done

\* The proof slot holds a record with state, verifier and creation time.
ProofWellFormed(slot) ==
  slot.kind = "json" /\ ~ProofMalformed(slot) /\ slot.hasCreatedAt

\* C11: when callback processing retrieves a stored proof whose createdAt
\* lies more than ten minutes before now, retrieve yields absent and the
\* proof slot is left empty; a proof aged ten minutes or less is returned and
\* left in place (with a matching state it goes into the exchange request);
\* hence every exchange request carries a verifier taken from a record that
\* was at most ten minutes old when it was retrieved.
C11_ExpiredProofCleared ==
  /\ [][(StartupStep /\ CallbackRuns /\ ProofWellFormed(pkceSlot)) =>
          IF now - pkceSlot.createdAt > PKCE_MAX_AGE_MS
            THEN /\ pkceSlot' = AbsentSlot
                 /\ errors' = <<"missing-verifier">>
                 /\ sent' = sent
                 /\ inflight' = NoRequest
            ELSE /\ "missing-verifier" \notin Range(errors')
                 /\ pkceSlot.state = url.state =>
                      /\ pkceSlot' = pkceSlot
                      /\ Len(sent') = Len(sent) + 1
                      /\ inflight'.codeVerifier = pkceSlot.codeVerifier]_vars
  /\ [][Len(sent') > Len(sent) =>
          /\ pkceSlot.kind = "json"
          /\ sent'[Len(sent')].codeVerifier = pkceSlot.codeVerifier
          /\ pkceSlot.hasCreatedAt =>
               now - pkceSlot.createdAt <= PKCE_MAX_AGE_MS]_vars

\* A callback met a proof persisted ten minutes and one millisecond earlier:
\* the slot is empty and nothing was sent.
C11_Witness ==
  /\ phase = "settled"
  /\ now = PKCE_MAX_AGE_MS + 2
  /\ errors = <<"missing-verifier">>
  /\ pkceSlot = AbsentSlot
  /\ url.state = "s0"
  /\ loads = 1
  /\ sent = <<>>

\* A callback met a proof aged exactly ten minutes and sent its verifier.
C11_WitnessAtTenMinutes ==
  /\ now = PKCE_MAX_AGE_MS + 1
  /\ loads = 1
  /\ Len(sent) = 1
  /\ sent[1].codeVerifier = "v0"

\* The step in which a suspended signIn call resumes and navigates.
SignInNavigates ==
  /\ Len(navLog') = Len(navLog) + 1
  /\ navLog'[Len(navLog')].to = "authorize"

\* The call that resumes in such a step.
Resumed == CHOOSE p \in pendingSignIn : p \notin pendingSignIn'

\* C12: a retrieve right after a persist, and any retrieve up to ten minutes
\* later, returns the state and verifier of the persisted bundle; the slot
\* changes only by a persist (which replaces whatever it held) or by being
\* emptied; a retrieve that returns a proof returns the fields of the record
\* in the slot and leaves the slot as it is, so retrieving again returns the
\* same; the verifier callback processing sends is the one in the slot.
C12_RetrieveReturnsLastPersisted ==
  /\ [][SignInNavigates =>
          \A age \in {0, PKCE_MAX_AGE_MS} :
            LET r == RetrievePkce(pkceSlot', now' + age)
            IN  /\ r.res = [found |-> TRUE, state |-> Resumed.bundle.state,
                            codeVerifier |-> Resumed.bundle.codeVerifier]
                /\ r.slot = pkceSlot']_vars
  /\ [][pkceSlot' # pkceSlot => SignInNavigates \/ pkceSlot' = AbsentSlot]_vars
  /\ [](LET r == RetrievePkce(pkceSlot, now)
        IN  r.res.found =>
              /\ r.res.state = pkceSlot.state
              /\ r.res.codeVerifier = pkceSlot.codeVerifier
              /\ r.slot = pkceSlot
              /\ RetrievePkce(r.slot, now) = r)
  /\ [][Len(sent') > Len(sent) =>
          /\ RetrievePkce(pkceSlot, now).res.found
          /\ sent'[Len(sent')].codeVerifier = pkceSlot.codeVerifier
          /\ url.state = pkceSlot.state
          /\ pkceSlot' = pkceSlot]_vars

\* The second document sent the verifier of the bundle that a signIn call in
\* the first document persisted.
C12_Witness ==
  /\ loads = 2
  /\ Len(sent) = 1
  /\ sent[1].load = 2
  /\ sent[1].codeVerifier = CreatePkceBundle(1).codeVerifier
  /\ url.state = CreatePkceBundle(1).state

\* The step in which signOut runs.
SignOutStep ==
  /\ Len(signals') = Len(signals) + 1
  /\ signals'[Len(signals')].name = "signed-out"

\* Nothing held: no user, no token, empty session slot.
Cleared == [user |-> NullUser, token |-> JsNull, session |-> AbsentSlot]

\* C13: signOut dispatches signed-out first: at that instant getUser,
\* getAccessToken and the session slot are what they were when signOut was
\* called; by the time the navigation is requested all three are cleared.
C13_SignedOutBeforeClearing ==
  [][SignOutStep =>
       /\ signals'[Len(signals')].intact
       /\ Len(navLog') = Len(navLog) + 1
       /\ navLog'[Len(navLog')].seen = Cleared]_vars

\* signOut ran with a signed-in user whose token carries a session id: the
\* event saw the outgoing identity and the logout navigation saw none.
C13_Witness ==
  /\ Len(signals) > 0
  /\ signals[Len(signals)].name = "signed-out"
  /\ signals[Len(signals)].intact
  /\ Len(navLog) = 1
  /\ navLog[1].to = "logout"
  /\ navLog[1].target.session_id = "sess_0"
  /\ navLog[1].seen = Cleared

\* C14: whatever user, access token and session slot signOut starts from,
\* when it returns getUser and getAccessToken give none and the session slot
\* is empty.
C14_SignOutClearsEverything ==
  [][SignOutStep =>
       /\ GetUser' = NullUser
       /\ GetAccessToken' = JsNull
       /\ sessionSlot' = AbsentSlot
       /\ ~SessionTruthy(GetSession(sessionSlot'))]_vars

\* signOut ran in a document that had settled with the stored user, whose
\* token carries no session id, and left nothing behind.
C14_Witness ==
  /\ phase = "settled"
  /\ readyValue = [kind |-> "resolved", user |-> User0]
  /\ Emitted("signed-out") # {}
  /\ Len(navLog) = 1
  /\ navLog[1].kind = "reload"
  /\ GetUser = NullUser
  /\ GetAccessToken = JsNull
  /\ sessionSlot = AbsentSlot

\* The token is a three-segment JWT whose payload decodes to claims with a
\* non-empty sid.
HasSessionId(token) ==
  /\ Truthy(token)
  /\ TokenShape(token).segments = 3
  /\ TokenShape(token).base64
  /\ TokenShape(token).json
  /\ Truthy(TokenShape(token).sid)

C16_SignInNavigatesWithOwnProof ==
  [][SignInNavigates =>
       LET nav == navLog'[Len(navLog')]
       IN  /\ pkceSlot' = [kind |-> "json", state |-> Resumed.bundle.state,
                           codeVerifier |-> Resumed.bundle.codeVerifier,
                           hasCreatedAt |-> TRUE, createdAt |-> now]
           /\ nav.kind = "assign"
           /\ nav.target.state = pkceSlot'.state
           /\ nav.target.code_challenge =
                "S256(" \o pkceSlot'.codeVerifier \o ")"]_vars

\* Two signIn calls overlapped and the one called second resumed first: the
\* document navigated to the second bundle's URL, then to the first one's,
\* and the slot holds the first bundle.
C16_Witness ==
  /\ Len(navLog) = 2
  /\ navLog[1].to = "authorize"
  /\ navLog[2].to = "authorize"
  /\ navLog[1].target.state = CreatePkceBundle(1).state
  /\ navLog[2].target.state = CreatePkceBundle(0).state
  /\ pkceSlot.kind = "json"
  /\ pkceSlot.codeVerifier = CreatePkceBundle(0).codeVerifier
  /\ pendingSignIn = {}

\* An optional value as a query parameter: absent unless it was supplied.
Carried(value) == IF value = Undefined \/ value = "" THEN JsNull ELSE value

\* C17: a signUp call hands signIn the caller's options with the screen hint
\* replaced by "sign-up"; the authorize URL it navigates to carries
\* screen_hint=sign-up, also when the caller passed "sign-in", and carries the
\* caller's other options as a signIn call with them would; the opaque state
\* is stored as for signIn.
C17_SignUpForcesScreenHint ==
  [][(SignInNavigates /\ Resumed.via = "signUp") =>
       LET nav   == navLog'[Len(navLog')]
           given == Resumed.given
       IN  /\ Resumed.opts = [given EXCEPT !.screenHint = "sign-up"]
           /\ nav.target.screen_hint = "sign-up"
           /\ nav.target.login_hint = Carried(given.loginHint)
           /\ nav.target.organization_id = Carried(given.organizationId)
           /\ nav.target.invitation_token = Carried(given.invitationToken)
           /\ nav.target.state = Resumed.bundle.state
           /\ nav.target.code_challenge = Resumed.bundle.codeChallenge
           /\ stateSlot' = IF given.state = Undefined THEN stateSlot
                           ELSE [kind |-> "json", value |-> given.state]]_vars

\* signUp was called with screenHint "sign-in", a login hint and a state, and
\* has navigated.
C17_Witness ==
  /\ Len(navLog) = 1
  /\ navLog[1].to = "authorize"
  /\ navLog[1].target.screen_hint = "sign-up"
  /\ navLog[1].target.login_hint = "ann@example.com"
  /\ stateSlot = [kind |-> "json", value |-> "route"]
  /\ pendingSignIn = {}

\* C18: the opaque-state slot changes only in the step of a signIn call that
\* received a state option, which writes that state; every other step, a
\* signIn or signUp call without state, signOut, the startup script and the
\* completion of the exchange among them, leaves it as it is.
C18_OpaqueStateWrittenOnlyBySignIn ==
  [][stateSlot' # stateSlot =>
       /\ SignInNavigates
       /\ Resumed.opts.state # Undefined
       /\ stateSlot' = [kind |-> "json", value |-> Resumed.opts.state]]_vars

\* A signIn call stored its state; the next document processed the callback,
\* signed the user in and then out, and the slot still holds that state.
C18_Witness ==
  /\ loads = 2
  /\ stateSlot = [kind |-> "json", value |-> "route"]
  /\ Emitted("signed-in") # {}
  /\ Emitted("signed-out") # {}
  /\ pkceSlot = AbsentSlot

\* C19: whichever of screenHint, loginHint, organizationId and
\* invitationToken a signIn call was given, the authorize URL it navigates to
\* carries client_id, redirect_uri, response_type=code, the bundle's
\* code_challenge, code_challenge_method=S256 and the bundle's state, carries
\* each supplied option under its parameter name with the supplied value, and
\* has no parameter, not even an empty one, for an option that was left out.
C19_AuthorizeUrlParameters ==
  [][SignInNavigates =>
       LET nav  == navLog'[Len(navLog')]
           opts == Resumed.opts
       IN  /\ nav.target =
                [path                  |-> "/user_management/authorize",
                 client_id             |-> "client_1",
                 redirect_uri          |-> "https://app.example/callback",
                 response_type         |-> "code",
                 code_challenge        |-> Resumed.bundle.codeChallenge,
                 code_challenge_method |-> "S256",
                 state                 |-> Resumed.bundle.state,
                 screen_hint           |-> Carried(opts.screenHint),
                 login_hint            |-> Carried(opts.loginHint),
                 organization_id       |-> Carried(opts.organizationId),
                 invitation_token      |-> Carried(opts.invitationToken)]
           /\ \A name \in {"screen_hint", "login_hint", "organization_id",
                           "invitation_token"} : nav.target[name] # ""]_vars

\* signIn was called with a login hint and an organization only and has
\* navigated: the URL carries those two and neither of the other two.
C19_Witness ==
  /\ Len(navLog) = 1
  /\ navLog[1].to = "authorize"
  /\ navLog[1].target.login_hint = "ann@example.com"
  /\ navLog[1].target.organization_id = "org_1"
  /\ navLog[1].target.screen_hint = JsNull
  /\ navLog[1].target.invitation_token = JsNull
  /\ navLog[1].target.client_id = "client_1"

\* The current URL is the redirect URI, or the redirect URI followed by a
\* slash, and has a code parameter.
AtRedirectWithCode ==
  /\ Origin \o url.path \in {config.redirectUri, config.redirectUri \o "/"}
  /\ url.code # JsNull

\* C20: the startup script of a configured document enters callback
\* processing exactly when autoCallback is on and the URL is at the redirect
\* path, with or without a trailing slash, with a code parameter; then ready
\* waits for it.  In every other case the startup step leaves the proof slot
\* as it is, logs nothing, issues no request, and resolves and emits ready
\* with the user hydrated from the session slot.
C20_CallbackDetection ==
  [][(StartupStep /\ ~ConfigMissing(config)) =>
       IF config.autoCallback /\ AtRedirectWithCode
         THEN /\ phase' \in {"exchanging", "resolved"}
              /\ readyValue' = ReadyPending
              /\ Emitted("ready")' = {}
         ELSE /\ phase' = "settled"
              /\ pkceSlot' = pkceSlot
              /\ errors' = <<>>
              /\ sent' = sent
              /\ inflight' = NoRequest
              /\ readyValue' = [kind |-> "resolved",
                                user |-> Hydrated(sessionSlot).user]
              /\ signals' = <<[name |-> "ready",
                               user |-> Hydrated(sessionSlot).user]>>
              /\ GetUser' = Hydrated(sessionSlot).user]_vars

\* A document away from the redirect path was loaded with a code and the
\* state of the stored proof: it settled with the stored user, the proof is
\* still in the slot and nothing was sent.
C20_Witness ==
  /\ phase = "settled"
  /\ url.path = "/app"
  /\ url.code = "c1"
  /\ url.state = "s0"
  /\ config.autoCallback
  /\ pkceSlot = StorePkce(CreatePkceBundle(0), 1)
  /\ readyValue = [kind |-> "resolved", user |-> User0]
  /\ errors = <<>>
  /\ sent = <<>>

\* A document at the redirect path with a code, autoCallback off: settled
\* by hydration, the proof untouched.
C20_WitnessAutoCallbackOff ==
  /\ phase = "settled"
  /\ url.path = "/callback"
  /\ url.code = "c1"
  /\ ~config.autoCallback
  /\ pkceSlot = StorePkce(CreatePkceBundle(0), 1)
  /\ sent = <<>>

\* C21: when the startup script of a configured document has run, the public
\* operations exist and getUser and getAccessToken give the user and token
\* of the session slot, none of both when the slot is missing or does not
\* parse; they still do while the exchange is in flight, unless signOut was
\* called; a startup without callback processing resolves ready with that
\* user.
C21_HydratedAtStartup ==
  /\ [][(StartupStep /\ ~ConfigMissing(config)) =>
          /\ exposed'
          /\ GetUser' = Hydrated(sessionSlot).user
          /\ GetAccessToken' = Hydrated(sessionSlot).token
          /\ sessionSlot' = sessionSlot]_vars
  /\ []((phase = "exchanging" /\ Emitted("signed-out") = {}) =>
          /\ GetUser = Hydrated(sessionSlot).user
          /\ GetAccessToken = Hydrated(sessionSlot).token)
  /\ [][(StartupStep /\ ~ConfigMissing(config)
           /\ ~(config.autoCallback /\ AtRedirectWithCode)) =>
          readyValue' = [kind |-> "resolved",
                         user |-> Hydrated(sessionSlot).user]]_vars

\* The exchange is in flight and the readers already give the stored session.
C21_Witness ==
  /\ phase = "exchanging"
  /\ readyValue = ReadyPending
  /\ GetUser = User0
  /\ GetAccessToken = "tok0"
  /\ sessionSlot = StoreSession("tok0", User0, 1)

\* The step in which handleCallback ends with a successful exchange.
ExchangeSucceeds ==
  /\ phase = "exchanging"
  /\ phase' = "resolved"
  /\ Len(signals') = Len(signals) + 1
  /\ signals'[Len(signals')].name = "signed-in"

\* The step in which signIn or signUp is called and suspends at the digest.
SignInBegins == nextId' = nextId + 1

\* The step in which the tab loads another document.
DocumentLeaves == loads' # loads

\* C22: what getUser and getAccessToken return changes only in the startup
\* step (hydration), at a successful exchange, in signOut, or when the
\* document is replaced; the session slot changes only at a successful
\* exchange or in signOut; a signIn or signUp call, from its start to its
\* navigation, changes none of the three.
C22_SessionChangesOnlyAtExchangeOrSignOut ==
  /\ [][(GetUser' # GetUser \/ GetAccessToken' # GetAccessToken) =>
          StartupStep \/ ExchangeSucceeds \/ SignOutStep \/ DocumentLeaves]_vars
  /\ [][sessionSlot' # sessionSlot => ExchangeSucceeds \/ SignOutStep]_vars
  /\ [][(SignInBegins \/ SignInNavigates) =>
          /\ GetUser' = GetUser
          /\ GetAccessToken' = GetAccessToken
          /\ sessionSlot' = sessionSlot]_vars

\* A signed-in user called signUp and the document navigated: the readers
\* and the session slot are as before.
C22_Witness ==
  /\ Len(navLog) = 1
  /\ navLog[1].to = "authorize"
  /\ navLog[1].target.screen_hint = "sign-up"
  /\ GetUser = User0
  /\ GetAccessToken = "tok0"
  /\ sessionSlot = StoreSession("tok0", User0, 1)
  /\ phase = "settled"

\* C24: the exchange request posts exactly four fields: the fixed grant
\* type, the configured client id, the code of the callback URL, and the
\* verifier of the stored proof, whose state equals the state parameter of
\* that URL; it has no client secret.
C24_ExchangeRequestFields ==
  [][Len(sent') > Len(sent) =>
       /\ inflight'.kind = "req"
       /\ pkceSlot.kind = "json"
       /\ pkceSlot.state = url.state
       /\ inflight'.body = [grant_type    |-> "authorization_code",
                            client_id     |-> config.clientId,
                            code          |-> url.code,
                            code_verifier |-> pkceSlot.codeVerifier]
       /\ "client_secret" \notin DOMAIN inflight'.body
       /\ Truthy(config.clientId)
       /\ Truthy(url.code)]_vars

\* The request in flight carries the code of the URL and the verifier that
\* a signIn call of the previous document persisted.
C24_Witness ==
  /\ phase = "exchanging"
  /\ loads = 2
  /\ inflight.kind = "req"
  /\ inflight.body.code = "c1"
  /\ inflight.body.code_verifier = CreatePkceBundle(1).codeVerifier
  /\ inflight.body.client_id = "client_1"
  /\ url.state = CreatePkceBundle(1).state

\* C23: a document issues at most one exchange request, and issues it in the
\* startup step; callback processing is entered from the startup step only
\* and ends once; after a failed exchange nothing is in flight and the one
\* request stays the only one; calling signIn, signUp or signOut neither
\* starts callback processing nor sends or cancels a request.
C23_OneExchangePerLoad ==
  /\ [](Cardinality(LoadRequests) <= 1)
  /\ [][Len(sent') > Len(sent) =>
          StartupStep /\ Len(sent') = Len(sent) + 1]_vars
  /\ [][(phase' # phase /\ phase' \in {"exchanging", "resolved"}) =>
          \/ phase = "init"
          \/ phase = "exchanging" /\ phase' = "resolved"]_vars
  /\ []("exchange-failed" \in Range(errors) =>
          /\ inflight = NoRequest
          /\ Cardinality(LoadRequests) = 1
          /\ phase \in {"resolved", "settled"})
  /\ [][(SignInBegins \/ SignInNavigates \/ SignOutStep) =>
          /\ phase' = phase
          /\ sent' = sent
          /\ inflight' = inflight
          /\ errors' = errors]_vars

\* The exchange of this document failed; afterwards the page called signOut:
\* still one request, nothing in flight.
C23_Witness ==
  /\ phase = "settled"
  /\ errors = <<"exchange-failed">>
  /\ Cardinality(LoadRequests) = 1
  /\ inflight = NoRequest
  /\ Emitted("signed-out") # {}
  /\ Len(navLog) = 1

\* C25: a load right after a save returns the saved token and user and a
\* storedAt above zero, whatever the slot held before the save; a load from
\* a missing slot or from text that does not parse returns absent; a clear
\* leaves the slot empty, also when it was empty already.
C25_SessionStoreRoundTrip ==
  /\ [][ExchangeSucceeds =>
          LET loaded == GetSession(sessionSlot')
          IN  /\ SessionTruthy(loaded)
              /\ loaded.accessToken = response'.body.access_token
              /\ loaded.user = Normalized(response'.body.user)
              /\ loaded.storedAt = now
              /\ loaded.storedAt > 0]_vars
  /\ [](sessionSlot.kind \in {"absent", "garbage"} =>
          ~SessionTruthy(GetSession(sessionSlot)))
  /\ [][SignOutStep =>
          /\ sessionSlot' = AbsentSlot
          /\ ~SessionTruthy(GetSession(sessionSlot'))]_vars

\* An exchange in the second document saved the session of user_2, and a
\* load returns that token and user, stamped with the current time.
C25_Witness ==
  /\ loads = 2
  /\ Emitted("signed-in") # {}
  /\ Len(sent) = 1
  /\ SessionTruthy(GetSession(sessionSlot))
  /\ GetSession(sessionSlot).accessToken = "tok1"
  /\ GetSession(sessionSlot).user.sub = "user_2"
  /\ GetSession(sessionSlot).storedAt = now
  /\ readyValue = [kind |-> "resolved", user |-> GetSession(sessionSlot).user]

\* signOut ran in a document whose session slot was empty: it still is.
C25_WitnessClearOnEmpty ==
  /\ Emitted("signed-out") # {}
  /\ readyValue = [kind |-> "resolved", user |-> NullUser]
  /\ Emitted("signed-in") = {}
  /\ sessionSlot = AbsentSlot

\* C26: whenever getUser gives a user object it has a sub; the user a
\* successful exchange produces has the provider's user id as sub, and
\* first name, last name and picture absent where the provider sent null.
C26_UserHasSub ==
  /\ [](UserTruthy(GetUser) => Truthy(GetUser.sub))
  /\ [][ExchangeSucceeds =>
          /\ GetUser'.sub = response'.body.user.id
          /\ GetUser' = Normalized(response'.body.user)
          /\ \A f \in {"firstName", "lastName", "profilePictureUrl"} :
               GetUser'[f] # JsNull]_vars

----------------------------------------------------------------------------
(* C27 *)

ClientIdMissingOrEmpty == config.clientId \in {Undefined, ""}

\* C27: with the client id missing or empty, startup records the diagnostic
\* and stops: the operations are not exposed, nothing is hydrated from the
\* session slot, the proof slot is not consumed, no slot is written, no
\* exchange request and no navigation happen, and the document stays that
\* way (no ready value, no signal) until the tab leaves it.
C27_MissingClientIdDisables ==
  /\ [][(StartupStep /\ ClientIdMissingOrEmpty) =>
          /\ errors' = <<"missing-client-id">>
          /\ phase' = "disabled"
          /\ ~exposed'
          /\ GetUser' = NullUser /\ GetAccessToken' = JsNull
          /\ pkceSlot' = pkceSlot /\ sessionSlot' = sessionSlot
          /\ stateSlot' = stateSlot
          /\ sent' = sent /\ inflight' = NoRequest
          /\ navLog' = <<>>]_vars
  /\ [](ClientIdMissingOrEmpty /\ phase # "init" =>
          /\ phase = "disabled"
          /\ ~exposed
          /\ errors = <<"missing-client-id">>
          /\ LoadRequests = {} /\ inflight = NoRequest
          /\ navLog = <<>>
          /\ readyValue = ReadyPending /\ signals = <<>>)
  /\ [][(phase = "disabled" /\ ~DocumentLeaves) =>
          /\ pkceSlot' = pkceSlot /\ sessionSlot' = sessionSlot
          /\ stateSlot' = stateSlot]_vars

\* An empty client id at the redirect address with a code, a stored session
\* and a proof in the slot: the script stopped and touched none of them.
C27_Witness ==
  /\ config.clientId = ""
  /\ phase = "disabled"
  /\ url.path = "/callback" /\ url.code = "c1"
  /\ pkceSlot # AbsentSlot
  /\ sessionSlot = StoreSession("tok0", User0, 1)
  /\ errors = <<"missing-client-id">>

----------------------------------------------------------------------------
(* C28 *)

\* What a consumer of AuthKit.ready gets: nothing while the promise is
\* pending, its value once it is resolved.
ReadySettled == readyValue.kind = "resolved"

\* C28: once ready has a value it keeps it for as long as the document lives,
\* whatever is called afterwards; the value is the user carried by the one
\* ready signal of the document, and ready has a value exactly when that
\* signal has been sent, so that consumers subscribing before and after
\* startup has settled get the same value.
C28_ReadyValueNeverChanges ==
  /\ [][(ReadySettled /\ ~DocumentLeaves) => readyValue' = readyValue]_vars
  /\ [](ReadySettled <=> phase = "settled")
  /\ [](ReadySettled =>
          /\ Cardinality(Emitted("ready")) = 1
          /\ \A i \in Emitted("ready") : signals[i].user = readyValue.user)
  /\ [](~ReadySettled => Emitted("ready") = {} /\ readyValue = ReadyPending)

\* ready was settled with the hydrated user, then the page signed out and a
\* sign-in was started: the user is gone, ready still carries it.
C28_Witness ==
  /\ ReadySettled
  /\ readyValue.user = User0
  /\ GetUser = NullUser
  /\ Emitted("signed-out") # {}
  /\ navLog # <<>>

\* ready was settled without a user and a signIn call is under way.
C28_WitnessSignIn ==
  /\ ReadySettled
  /\ readyValue.user = NullUser
  /\ pendingSignIn # NoSignIn

----------------------------------------------------------------------------
(* C29 *)

\* C29: the step that completes a successful exchange leaves the address
\* without code and state, overwrites the document's current history entry
\* with it and adds none; from then on no entry the document owns is a
\* callback address, so that going back to one of them, or reloading the
\* current one, finds nothing to process.
C29_CodeStrippedByReplace ==
  /\ [][ExchangeSucceeds =>
          /\ url.code # JsNull
          /\ url'.path = url.path
          /\ url'.code = JsNull /\ url'.state = JsNull
          /\ Len(history') = Len(history)
          /\ history' = [history EXCEPT ![Len(history)] = url']]_vars
  /\ [](Emitted("signed-in") # {} =>
          /\ url.code = JsNull /\ url.state = JsNull
          /\ history = <<url>>
          /\ \A i \in DOMAIN history : ~IsCallbackUrl(config, history[i]))
  /\ [][(StartupStep /\ loads > 1 /\ ~ClientIdMissingOrEmpty
           /\ ~IsCallbackUrl(config, url)) =>
          sent' = sent /\ pkceSlot' = pkceSlot /\ errors' = errors]_vars

\* After a successful sign-in the tab loaded the cleaned address again (a
\* reload): the only exchange request ever sent is the first document's.
C29_Witness ==
  /\ loads = 2
  /\ phase = "settled"
  /\ url = [path |-> "/callback", code |-> JsNull, state |-> JsNull,
            tab |-> JsNull]
  /\ history = <<url>>
  /\ Len(sent) = 1 /\ sent[1].load = 1 /\ sent[1].done
  /\ GetAccessToken = "tok1"
  /\ UserTruthy(GetUser) /\ GetUser.sub = "user_1"

----------------------------------------------------------------------------
(* C30 *)

\* Startup enters callback processing and the code parameter is empty.
CallbackRunsWithoutCode ==
  /\ ~ClientIdMissingOrEmpty
  /\ config.autoCallback
  /\ AtRedirectWithCode
  /\ ~Truthy(url.code)

\* C30: callback processing that finds the code absent or empty returns at
\* once: the startup step logs nothing, leaves the proof slot as it is (an
\* expired proof is not removed), issues no exchange request and changes
\* neither the session slot nor the address; getUser and getAccessToken give
\* what hydration took from the session slot, and the ready step that
\* follows carries that user.
C30_NoCodeIsNoOp ==
  /\ [](\A u \in Urls : ~Truthy(u.code) =>
          HandleCallbackStart(u, pkceSlot, now)
            = [outcome |-> "nocode", slot |-> pkceSlot])
  /\ [][(StartupStep /\ CallbackRunsWithoutCode) =>
          /\ phase' = "resolved"
          /\ errors' = <<>>
          /\ pkceSlot' = pkceSlot
          /\ sent' = sent /\ inflight' = NoRequest
          /\ sessionSlot' = sessionSlot /\ stateSlot' = stateSlot
          /\ url' = url /\ history' = history
          /\ GetUser' = Hydrated(sessionSlot).user
          /\ GetAccessToken' = Hydrated(sessionSlot).token
          /\ Emitted("signed-in")' = {}]_vars
  /\ [][(phase = "resolved" /\ CallbackRunsWithoutCode) =>
          /\ phase' = "settled"
          /\ readyValue' = [kind |-> "resolved",
                            user |-> Hydrated(sessionSlot).user]
          /\ signals' = <<[name |-> "ready",
                           user |-> Hydrated(sessionSlot).user]>>
          /\ errors' = <<>>
          /\ pkceSlot' = pkceSlot /\ sessionSlot' = sessionSlot
          /\ sent' = sent]_vars

\* The redirect address was loaded with `code=` more than ten minutes after a
\* sign-in was started: ready carries the stored user, the expired proof is
\* still in its slot, nothing was logged or sent.
C30_Witness ==
  /\ phase = "settled"
  /\ config.autoCallback
  /\ url.path = "/callback" /\ url.code = ""
  /\ pkceSlot = StorePkce(CreatePkceBundle(0), 1)
  /\ now = 1 + PKCE_MAX_AGE_MS + 1
  /\ sessionSlot = StoreSession("tok0", User0, 1)
  /\ readyValue = [kind |-> "resolved", user |-> User0]
  /\ errors = <<>>
  /\ sent = <<>>

----------------------------------------------------------------------------
(* C31 *)

\* The page load has ended in a failure: startup stopped on the client id,
\* or callback processing logged a diagnostic and the load is settled.
TerminalFailure ==
  \/ phase = "disabled"
  \/ phase = "settled" /\ errors # <<>>

----------------------------------------------------------------------------
(* C32 *)

\* C32: when localStorage cannot be read, a configured document starts as
\* if nothing were stored: the script of the document has run to its end,
\* the public operations are exposed, getUser and getAccessToken give
\* nothing, and once the document is settled ready has been emitted once,
\* without a user.
C32_StorageFailureDegrades ==
  (sessionSlot = UnavailableSlot /\ ~ClientIdMissingOrEmpty /\ phase # "init") =>
    /\ phase \in {"exchanging", "resolved", "settled"}
    /\ exposed
    /\ GetUser = NullUser /\ GetAccessToken = JsNull
    /\ (phase = "settled" =>
          /\ ReadyCount = 1
          /\ readyValue = [kind |-> "resolved", user |-> NullUser])

----------------------------------------------------------------------------
(* C33 *)

\* The step in which createPkceBundle fails in a signIn or signUp call.
SignInFails == rejected' = rejected + 1

\* C33: a signIn or signUp call whose proof creation fails ends there: the
\* proof slot, the opaque-state slot and the session slot keep what they
\* held, no navigation is requested, getUser and getAccessToken give what
\* they gave, nothing is logged or emitted, the document stays where it is,
\* and the call is no longer waiting.
C33_FailedProofCreationHasNoEffect ==
  /\ [][SignInFails =>
          /\ pkceSlot' = pkceSlot
          /\ stateSlot' = stateSlot
          /\ sessionSlot' = sessionSlot
          /\ navLog' = navLog
          /\ GetUser' = GetUser /\ GetAccessToken' = GetAccessToken
          /\ url' = url /\ history' = history
          /\ signals' = signals /\ errors' = errors
          /\ sent' = sent
          /\ Cardinality(pendingSignIn') = Cardinality(pendingSignIn) - 1
          /\ phase' = phase /\ loads' = loads]_vars

\* A signed-in page called signIn with an opaque state while an old proof
\* was in the slot, and proof creation failed: the old proof, the session
\* and the user are as before, nothing was written or requested.
C33_Witness ==
  /\ rejected = 1
  /\ pendingSignIn = NoSignIn
  /\ phase = "settled"
  /\ navLog = <<>>
  /\ pkceSlot = StorePkce(CreatePkceBundle(0), 1)
  /\ stateSlot = AbsentSlot
  /\ sessionSlot = StoreSession("tok0", User0, 1)
  /\ GetUser = User0

----------------------------------------------------------------------------
(* C34 *)

\* The step in which the exchange of the current document completes.
ExchangeCompletes == phase = "exchanging" /\ phase' = "resolved"

\* C34: when signOut was called while the exchange was in flight, the
\* completion of that exchange leaves getUser and getAccessToken without a
\* user and a token, does not write the session slot and emits no signed-in.
C34_SignOutIsFinal ==
  [][(ExchangeCompletes /\ Emitted("signed-out") # {}) =>
       /\ GetUser' = NullUser
       /\ GetAccessToken' = JsNull
       /\ sessionSlot' = sessionSlot
       /\ Emitted("signed-in")' = {}]_vars

----------------------------------------------------------------------------
(* C35 *)

\* A signIn or signUp call of the current document has persisted its proof
\* and requested the navigation to the provider.
SignInPersisted == \E i \in DOMAIN navLog : navLog[i].to = "authorize"

\* C35: a proof that signIn persisted while the exchange of an earlier
\* callback was in flight is still in the proof slot when that exchange
\* completes, whether it succeeds or fails.
C35_NewProofSurvivesOldExchange ==
  [][(ExchangeCompletes /\ SignInPersisted) =>
       /\ pkceSlot.kind = "json"
       /\ pkceSlot' = pkceSlot]_vars

----------------------------------------------------------------------------
(* C36 *)

\* C36: the step that completes a successful exchange dispatches signed-in
\* last: a listener of that event already sees the new user in memory and in
\* the session slot, the proof slot empty and the address without code and
\* state, and ready has not been delivered yet.  The ready step comes next,
\* changes none of these and dispatches ready after signed-in, with the same
\* user.
C36_CallbackEffectsInOrder ==
  /\ [][ExchangeSucceeds =>
          LET s == signals'[Len(signals')]
          IN  /\ s.done
              /\ s.user = GetUser'
              /\ sessionSlot' = StoreSession(GetAccessToken', GetUser', now)
              /\ pkceSlot' = AbsentSlot
              /\ url'.code = JsNull /\ url'.state = JsNull
              /\ Emitted("ready")' = {}
              /\ readyValue' = ReadyPending]_vars
  /\ [][(phase = "resolved" /\ Emitted("signed-in") # {}) =>
          /\ phase' = "settled"
          /\ signals' = Append(signals, [name |-> "ready", user |-> GetUser])
          /\ readyValue' = [kind |-> "resolved", user |-> GetUser]
          /\ GetUser' = GetUser
          /\ sessionSlot' = sessionSlot /\ sessionSlot.user = GetUser
          /\ pkceSlot' = AbsentSlot
          /\ url' = url /\ url.code = JsNull /\ url.state = JsNull]_vars
  /\ [](\A i \in Emitted("signed-in") : \A j \in Emitted("ready") : i < j)

\* A callback succeeded and the document is settled: signed-in, dispatched
\* over the finished state, then ready.
C36_Witness ==
  /\ phase = "settled"
  /\ Len(signals) = 2
  /\ signals[1].name = "signed-in" /\ signals[1].done
  /\ signals[2] = [name |-> "ready", user |-> signals[1].user]
  /\ sessionSlot.kind = "json" /\ sessionSlot.user = GetUser
  /\ pkceSlot = AbsentSlot
  /\ url.path = "/callback" /\ url.code = JsNull

----------------------------------------------------------------------------
(* C37 *)

\* The session slot yields no session: nothing stored, or text that does not
\* parse.
SlotEmptyOrUnreadable == sessionSlot.kind # "json" \/ sessionSlot.value # "obj"

C37_WitnessSignedOut ==
  /\ Emitted("signed-out") # {}
  /\ phase = "settled"
  /\ GetUser = NullUser
  /\ sessionSlot = AbsentSlot
  /\ errors # <<>>

----------------------------------------------------------------------------
(* C38 *)

\* C38: in every state getUser gives a user exactly when getAccessToken
\* gives a token, whatever the session slot held when the tab opened.
C38_UserIffToken ==
  UserTruthy(GetUser) <=> Truthy(GetAccessToken)

----------------------------------------------------------------------------
(* C39 *)

\* C39: the URL cleanup of a successful exchange removes the code and state
\* parameters and nothing else: the path and the other query parameters of
\* the callback URL are still in the address.
C39_CleanupKeepsOtherParameters ==
  [][ExchangeSucceeds =>
       /\ url'.code = JsNull /\ url'.state = JsNull
       /\ url'.path = url.path
       /\ url'.tab = url.tab]_vars

----------------------------------------------------------------------------
(* C40 *)

\* C40: the retrieve of callback processing returns a proof only from a
\* record that carries a createdAt at most ten minutes old, and an exchange
\* request is issued only on such a record: one with state and verifier but
\* no createdAt counts as absent.
C40_ProofNeedsFreshTimestamp ==
  /\ [][(StartupStep /\ CallbackRuns
         /\ RetrievePkce(pkceSlot, now).res.found) =>
          /\ pkceSlot.hasCreatedAt
          /\ now - pkceSlot.createdAt <= PKCE_MAX_AGE_MS]_vars
  /\ [][Len(sent') > Len(sent) =>
          /\ pkceSlot.kind = "json"
          /\ pkceSlot.hasCreatedAt
          /\ now - pkceSlot.createdAt <= PKCE_MAX_AGE_MS]_vars

====
